---- MODULE Spec2Model ----
(***************************************************************************)
(* student-collab-hub: the REST handlers of the users, posts and comments  *)
(* routers over the three MongoDB collections (User, Post, Comment).       *)
(*                                                                         *)
(* Every handler is a sequence of database calls separated by `await`.     *)
(* Each database call is one atomic step (the storage engine serialises    *)
(* single-document writes); the steps of different requests interleave.    *)
(* The sequential specifications serve one request to completion at a      *)
(* time, the concurrent ones interleave the steps of several requests.     *)
(***************************************************************************)
EXTENDS Integers, Sequences, FiniteSets, TLC

\* ------------------------------------------------------------------ bounds
NumUsers == 3        \* registered users 1..NumUsers
MaxFollows == 3      \* sequential follows are served while fewer entries exist
NumSlots == 2        \* concurrent requests in one run
MaxPosts == 1        \* posts created in one run
MaxComments == 3     \* comments created in one run
MaxViews == 2        \* sequential fetches are served while views are fewer
MaxLikes == 2        \* sequential likes are served while fewer entries exist
MaxLikedComments == 2   \* comments created in a run of like requests
MaxListed == 2       \* posts and comments created in a run of listings
MaxClock == 1        \* the clock ticks while it shows less
MaxLimit == 2        \* the limit query parameters 1..MaxLimit
MaxOwned == 2        \* comments created in a run of updates and deletions
MaxThreadPosts == 2  \* posts created in a run of requests under a post
MaxThreadComments == 2   \* comments created in such a run
MaxFailComments == 2     \* comments created in a run with failing steps
MaxFailFollows == 2      \* follows are served in it while fewer entries exist
MaxCategorised == 2      \* posts created in a run of category choices
MaxQueried == 2          \* posts and comments created in a run of queries
MaxQuery == 2            \* the query parameters -MaxQuery..MaxQuery
MaxRaceComments == 2     \* comments created while a post is being deleted
MaxCardLikes == 2        \* likes served before the feed is loaded
MaxProfileFollows == 2   \* follows served before the profile page is loaded
MaxFramed == 2           \* likes, views and comments of a run of post updates

VARIABLES users, posts, comments, nextId, now, reqs, card, profile

vars == <<users, posts, comments, nextId, now, reqs, card, profile>>

\* the state of the client's components
client == <<card, profile>>

\* ------------------------------------------------------------- identifiers
UserIds == 1..NumUsers
\* well-formed user ids a path can carry: the registered ones and one that
\* names no user
AnyUserId == 1..(NumUsers + 1)
\* req.user of a request that went through optionalAuth without a token
Anonymous == 0
\* the ids of the posts and comments a path or a body can carry: those that
\* are ever created and one that never is
AnyPostId == 1..(MaxPosts + 1)
AnyCommentId == 1..(MaxComments + 1)

\* An ObjectId travels in a path or a body as a 24 digit hex string.  The
\* driver accepts the digits a-f in either case and prints them in lower
\* case, so one id has several spellings, of which toString() yields one.
Spellings == {"lower", "upper"}
Params(ids) == [id : ids, sp : Spellings]
NullParam == [id |-> 0, sp |-> "lower"]

\* ObjectId.prototype.toString()
toString(id) == [id |-> id, sp |-> "lower"]
\* the cast of a string to ObjectId done by findById, $push, $pull, filters
Cast(p) == p.id

\* MongooseArray.includes(string): obj == this[i] compares the string with
\* this[i].toString()
Includes(arr, p) == \E i \in 1..Len(arr) : toString(arr[i]) = p
\* the slip of Array.prototype.includes on ObjectId objects, which compares
\* references and never finds a stored id
IncludesByReference(arr, id) == FALSE

\* MongooseArray.includes(ObjectId)
IncludesId(arr, id) == \E i \in 1..Len(arr) : arr[i] = id

\* $push appends one element, $pull removes every matching element
Push(arr, id) == Append(arr, id)
Pull(arr, id) == SelectSeq(arr, LAMBDA e : e # id)

Exists(coll, id) == id \in DOMAIN coll

\* ---------------------------------------------------------------- requests
NoLocal == [post |-> 0, parentComment |-> 0, views |-> 0, id |-> 0,
            username |-> 0, email |-> 0, page |-> 0, limit |-> 0, skip |-> 0,
            isLiked |-> FALSE, likeCount |-> 0]

\* The usernames and the e-mail addresses are numbered; user u registers
\* with the name and the address u, and one more of each is free.  0 is the
\* empty string, which a body gives for a field it leaves out.
Names == 1..(NumUsers + 1)
NoName == 0

\* an integer query parameter as it arrives: absent, not a number, or a number
NoQuery == [given |-> FALSE, numeric |-> FALSE, n |-> 0]
QueryInt(n) == [given |-> TRUE, numeric |-> TRUE, n |-> n]
\* a parameter that parseInt turns into NaN
NotANumber == [given |-> TRUE, numeric |-> FALSE, n |-> 0]
\* parseInt(req.query.x) || dflt: NaN and 0 are falsy
ParseIntOr(q, dflt) == IF q.given /\ q.numeric /\ q.n # 0 THEN q.n ELSE dflt

NoPagination == [page |-> 0, limit |-> 0, total |-> 0, pages |-> 0]

\* body('type').isIn([...]) and the enum of postSchema.type
PostTypes == {"note", "job"}

\* body('category').isIn([...]) of POST /posts
CreateCategories ==
  {"academic", "project", "research", "study-guide", "tutorial", "internship",
   "part-time", "full-time", "freelance", "research-assistant", "other"}

\* body('category').optional().isIn([...]) of PUT /posts/:postId
UpdateCategories ==
  {"academic", "project", "research", "study-guide", "tutorial", "internship",
   "part-time", "full-time", "freelance", "research-assistant", "other"}

\* the enum of postSchema.category
SchemaCategories ==
  {"academic", "project", "research", "internship", "part-time", "full-time",
   "freelance", "other"}

\* the content of a new comment and of an edited one
Contents == {"first", "edited"}

\* an optional boolean of a body: absent, or given with a value
NoBool == [given |-> FALSE, value |-> FALSE]
BodyBools == {NoBool} \cup {[given |-> TRUE, value |-> v] : v \in BOOLEAN}

Idle == [kind |-> "none", pc |-> "idle", user |-> 0, id |-> NullParam,
         postId |-> NullParam, parentCommentId |-> NullParam,
         isPublic |-> TRUE, valid |-> TRUE, content |-> "first",
         setPublic |-> NoBool, type |-> "note", category |-> "academic",
         author |-> NullParam,
         username |-> NoName, email |-> NoName, failAt |-> "",
         page |-> NoQuery, limit |-> NoQuery,
         order |-> <<>>, local |-> NoLocal, status |-> 0, message |-> "",
         liked |-> FALSE, results |-> <<>>, pagination |-> NoPagination,
         seen |-> FALSE, body |-> <<>>]

NewReq(kind, user, id) == [Idle EXCEPT !.kind = kind, !.pc = "start",
                                       !.user = user, !.id = id]

NewPostReq(user, isPublic) ==
  [NewReq("createPost", user, NullParam) EXCEPT !.isPublic = isPublic]

NewCommentReq(user, postId, parentCommentId) ==
  [NewReq("createComment", user, NullParam) EXCEPT
     !.postId = postId, !.parentCommentId = parentCommentId]

\* POST /posts/:postId/comments with body {parentCommentId}
NewPostCommentReq(user, postId, parentCommentId) ==
  [NewCommentReq(user, postId, parentCommentId) EXCEPT
     !.kind = "createPostComment"]

\* DELETE /posts/:postId/comments/:commentId
NewPostCommentDelete(user, postId, commentId) ==
  [NewReq("deletePostComment", user, commentId) EXCEPT !.postId = postId]

\* PUT /posts/:postId with body {isPublic}; valid says whether the body
\* passes the validators of the route
NewPostUpdate(user, id, valid, setPublic) ==
  [NewReq("updatePost", user, id) EXCEPT !.valid = valid,
                                         !.setPublic = setPublic,
                                         !.type = "", !.category = ""]

\* PUT /comments/:commentId with body {content}
NewCommentUpdate(user, id, valid, content) ==
  [NewReq("updateComment", user, id) EXCEPT !.valid = valid,
                                            !.content = content]

\* PUT /users/profile with body {username, email}
NewProfileUpdate(user, username, email) ==
  [NewReq("updateProfile", user, NullParam) EXCEPT !.username = username,
                                                   !.email = email]

\* a listing request; order is the order in which the storage engine hands
\* out the documents of the collection that have the same sort key
NewListReq(kind, user, id, page, limit, order) ==
  [NewReq(kind, user, id) EXCEPT !.page = page, !.limit = limit,
                                 !.order = order, !.type = ""]

\* a listing of posts with the query parameters type and author, each of
\* them absent ("" and NullParam) or given
NewPostListReq(kind, user, id, type, author, limit, order) ==
  [NewListReq(kind, user, id, NoQuery, limit, order) EXCEPT
     !.type = type, !.author = author]

Reply(r, status, message) == [r EXCEPT !.pc = "done", !.status = status,
                                       !.message = message]

DB == [users |-> users, posts |-> posts, comments |-> comments,
       nextId |-> nextId, now |-> now]

\* ------------------------------------------------ users router: follow
\* User.findByIdAndUpdate(id, {$push / $pull: ...}) updates the document if it
\* exists and is a no-op otherwise
PushFollowing(db, me, target) ==
  IF Exists(db.users, me)
    THEN [db EXCEPT !.users[me].following = Push(@, target)] ELSE db

PushFollowers(db, target, me) ==
  IF Exists(db.users, target)
    THEN [db EXCEPT !.users[target].followers = Push(@, me)] ELSE db

PullFollowing(db, me, target) ==
  IF Exists(db.users, me)
    THEN [db EXCEPT !.users[me].following = Pull(@, target)] ELSE db

\* the slip of pulling from the wrong list of the followed user
PullFollowersWrongList(db, target, me) ==
  IF Exists(db.users, target)
    THEN [db EXCEPT !.users[target].following = Pull(@, me)] ELSE db

PullFollowers(db, target, me) ==
  IF Exists(db.users, target)
    THEN [db EXCEPT !.users[target].followers = Pull(@, me)] ELSE db

\* the slip of updating the caller's list before looking the target up
FollowStepPushesFirst(db, r) ==
  LET me == r.user
      target == Cast(r.id)
  IN IF r.id = toString(me)
       THEN [db |-> db, r |-> Reply(r, 400, "You cannot follow yourself")]
     ELSE IF ~Exists(db.users, target)
       THEN [db |-> PushFollowing(db, me, target),
             r |-> Reply(r, 404, "User not found")]
     ELSE [db |-> PushFollowers(PushFollowing(db, me, target), target, me),
           r |-> Reply(r, 200, "User followed successfully")]

\* POST /users/:userId/follow
FollowStep(db, r) ==
  LET me == r.user
      target == Cast(r.id)
  IN CASE r.pc = "start" ->
            IF r.id = toString(me)
              THEN [db |-> db, r |-> Reply(r, 400, "You cannot follow yourself")]
            ELSE IF ~Exists(db.users, target)
              THEN [db |-> db, r |-> Reply(r, 404, "User not found")]
            ELSE [db |-> db, r |-> [r EXCEPT !.pc = "currentUser"]]
       [] r.pc = "currentUser" ->
            IF Includes(db.users[me].following, r.id)
              THEN [db |-> db, r |-> [r EXCEPT !.pc = "pullFollowing"]]
              ELSE [db |-> db, r |-> [r EXCEPT !.pc = "pushFollowing"]]
       [] r.pc = "pullFollowing" ->
            [db |-> PullFollowing(db, me, target),
             r |-> [r EXCEPT !.pc = "pullFollowers"]]
       [] r.pc = "pullFollowers" ->
            [db |-> PullFollowers(db, target, me),
             r |-> Reply(r, 200, "User unfollowed successfully")]
       [] r.pc = "pushFollowing" ->
            [db |-> PushFollowing(db, me, target),
             r |-> [r EXCEPT !.pc = "pushFollowers"]]
       [] r.pc = "pushFollowers" ->
            [db |-> PushFollowers(db, target, me),
             r |-> Reply(r, 200, "User followed successfully")]

\* DELETE /users/:userId/follow
UnfollowStep(db, r) ==
  LET me == r.user
      target == Cast(r.id)
  IN CASE r.pc = "start" ->
            IF r.id = toString(me)
              THEN [db |-> db, r |-> Reply(r, 400, "You cannot unfollow yourself")]
            ELSE IF ~Exists(db.users, target)
              THEN [db |-> db, r |-> Reply(r, 404, "User not found")]
            ELSE [db |-> db, r |-> [r EXCEPT !.pc = "currentUser"]]
       [] r.pc = "currentUser" ->
            IF ~Includes(db.users[me].following, r.id)
              THEN [db |-> db, r |-> Reply(r, 400, "Not following this user")]
              ELSE [db |-> db, r |-> [r EXCEPT !.pc = "pullFollowing"]]
       [] r.pc = "pullFollowing" ->
            [db |-> PullFollowing(db, me, target),
             r |-> [r EXCEPT !.pc = "pullFollowers"]]
       [] r.pc = "pullFollowers" ->
            [db |-> PullFollowers(db, target, me),
             r |-> Reply(r, 200, "User unfollowed successfully")]

\* a user document of a populated followers or following list
Populated(id) == [id |-> id, populated |-> TRUE]

\* GET /users/:userId answers {user, isFollowing}, the lists of user
\* populated
GetUserStep(db, r) ==
  LET id == Cast(r.id)
  IN IF ~Exists(db.users, id)
       THEN [db |-> db, r |-> Reply(r, 404, "User not found")]
       ELSE LET u == db.users[id]
            IN [db |-> db,
                r |-> [Reply(r, 200, "") EXCEPT
                         !.body =
                           [user |-> [followers |->
                                        [i \in DOMAIN u.followers |->
                                           Populated(u.followers[i])],
                                      following |->
                                        [i \in DOMAIN u.following |->
                                           Populated(u.following[i])]],
                            isFollowing |->
                               /\ r.user # Anonymous
                               /\ IncludesId(u.followers, r.user)]]]

\* ------------------------------------------------ users router: profile
\* User.findOne({field: value})
Taken(db, field, value) == \E u \in DOMAIN db.users : db.users[u][field] = value

\* the next database call of the profile update once the username is settled
AfterUsername(r) ==
  IF r.email # NoName /\ r.email # r.local.email THEN "findEmail" ELSE "update"

\* the slip of leaving out the check of the e-mail address
UpdateProfileStepNoEmailCheck(db, r) ==
  LET me == db.users[r.user]
  IN IF /\ r.username # NoName /\ r.username # me.username
        /\ Taken(db, "username", r.username)
       THEN [db |-> db, r |-> Reply(r, 400, "Username already taken")]
       ELSE [db |-> [db EXCEPT
                       !.users[r.user].username =
                          IF r.username # NoName THEN r.username ELSE @,
                       !.users[r.user].email =
                          IF r.email # NoName THEN r.email ELSE @],
             r |-> Reply(r, 200, "Profile updated successfully")]

\* PUT /users/profile; req.user is the caller's record as the auth
\* middleware read it when the request arrived
UpdateProfileStep(db, r) ==
  CASE r.pc = "start" ->
         LET me == db.users[r.user]
             q == [r EXCEPT !.local.username = me.username,
                            !.local.email = me.email]
         IN [db |-> db,
             r |-> [q EXCEPT !.pc =
                      IF r.username # NoName /\ r.username # me.username
                        THEN "findUsername" ELSE AfterUsername(q)]]
    [] r.pc = "findUsername" ->
         IF Taken(db, "username", r.username)
           THEN [db |-> db, r |-> Reply(r, 400, "Username already taken")]
           ELSE [db |-> db, r |-> [r EXCEPT !.pc = AfterUsername(r)]]
    [] r.pc = "findEmail" ->
         IF Taken(db, "email", r.email)
           THEN [db |-> db, r |-> Reply(r, 400, "Email already taken")]
           ELSE [db |-> db, r |-> [r EXCEPT !.pc = "update"]]
    [] r.pc = "update" ->
         [db |-> IF Exists(db.users, r.user)
                   THEN [db EXCEPT
                           !.users[r.user].username =
                              IF r.username # NoName THEN r.username
                              ELSE r.local.username,
                           !.users[r.user].email =
                              IF r.email # NoName THEN r.email
                              ELSE r.local.email]
                   ELSE db,
          r |-> Reply(r, 200, "Profile updated successfully")]

\* ------------------------------------------------------------ posts router
\* POST /posts: new Post({author: req.user._id, ...}).save(); the schema
\* defaults give an empty likes and comments list and views 0
NewPost(author, type, category, isPublic, createdAt) ==
  [author |-> author, type |-> type, category |-> category,
   isPublic |-> isPublic, likes |-> <<>>, comments |-> <<>>, views |-> 0,
   createdAt |-> createdAt]

\* the validators of save() and of findByIdAndUpdate(.., {runValidators:
\* true}): a category outside the enum of the schema is a ValidationError
SchemaAccepts(category) == category \in SchemaCategories

\* validationResult(req) not empty: 400 with the list of errors
Invalid(db, r) == [db |-> db, r |-> Reply(r, 400, "errors")]

CreatePostStep(db, r) ==
  LET id == db.nextId.post
  IN IF ~r.valid \/ r.type \notin PostTypes
        \/ r.category \notin CreateCategories
       THEN Invalid(db, r)
     \* post.save() throws the ValidationError into the catch block
     ELSE IF ~SchemaAccepts(r.category)
       THEN [db |-> db, r |-> Reply(r, 500, "Server error")]
     ELSE [db |-> [db EXCEPT !.posts = (id :> NewPost(r.user, r.type,
                                                      r.category, r.isPublic,
                                                      db.now))
                                        @@ @,
                             !.nextId.post = id + 1],
           r |-> [Reply(r, 201, "Post created successfully")
                    EXCEPT !.local.id = id]]

\* the slip of handing the whole body to findByIdAndUpdate
UpdatePostStepWholeBody(db, r) ==
  LET postId == Cast(r.id)
  IN IF ~r.valid \/ (r.category # "" /\ r.category \notin UpdateCategories)
       THEN Invalid(db, r)
     ELSE IF ~Exists(db.posts, postId)
       THEN [db |-> db, r |-> Reply(r, 404, "Post not found")]
     ELSE IF toString(db.posts[postId].author) # toString(r.user)
       THEN [db |-> db,
             r |-> Reply(r, 403, "Not authorized to update this post")]
     ELSE IF r.category # "" /\ ~SchemaAccepts(r.category)
       THEN [db |-> db, r |-> Reply(r, 500, "Server error")]
     ELSE [db |-> [db EXCEPT
                     !.posts[postId].category =
                        IF r.category # "" THEN r.category ELSE @,
                     !.posts[postId].isPublic =
                        IF r.setPublic.given THEN r.setPublic.value ELSE @,
                     !.posts[postId].type = IF r.type # "" THEN r.type ELSE @,
                     !.posts[postId].author =
                        IF r.author # NullParam THEN Cast(r.author) ELSE @],
           r |-> Reply(r, 200, "Post updated successfully")]

\* PUT /posts/:postId
UpdatePostStep(db, r) ==
  LET postId == Cast(r.id)
  IN CASE r.pc = "start" ->
            IF ~r.valid \/ (r.category # "" /\ r.category \notin UpdateCategories)
              THEN Invalid(db, r)
            ELSE IF ~Exists(db.posts, postId)
              THEN [db |-> db, r |-> Reply(r, 404, "Post not found")]
            ELSE IF toString(db.posts[postId].author) # toString(r.user)
              THEN [db |-> db,
                    r |-> Reply(r, 403, "Not authorized to update this post")]
            ELSE [db |-> db, r |-> [r EXCEPT !.pc = "update"]]
       [] r.pc = "update" ->
            \* findByIdAndUpdate(postId, updateFields, {runValidators: true}):
            \* category and isPublic are among the fields when the body gives
            \* them; a type in the body is not read
            IF r.category # "" /\ ~SchemaAccepts(r.category)
              THEN [db |-> db, r |-> Reply(r, 500, "Server error")]
              ELSE [db |-> IF Exists(db.posts, postId)
                             THEN [db EXCEPT
                                     !.posts[postId].category =
                                        IF r.category # "" THEN r.category
                                        ELSE @,
                                     !.posts[postId].isPublic =
                                        IF r.setPublic.given
                                          THEN r.setPublic.value ELSE @]
                             ELSE db,
                    r |-> Reply(r, 200, "Post updated successfully")]

\* the slip of not counting the author's own fetches
GetPostStepSkipsAuthor(db, r) ==
  LET postId == Cast(r.id)
  IN IF ~Exists(db.posts, postId)
       THEN [db |-> db, r |-> Reply(r, IF r.pc = "start" THEN 404 ELSE 500, "")]
     ELSE IF db.posts[postId].author = r.user
       THEN [db |-> db, r |-> Reply(r, 200, "")]
     ELSE IF r.pc = "start"
       THEN [db |-> db,
             r |-> [r EXCEPT !.pc = "save",
                             !.local.views = db.posts[postId].views + 1]]
     ELSE [db |-> [db EXCEPT !.posts[postId].views = r.local.views],
           r |-> Reply(r, 200, "")]

\* GET /posts/:postId
GetPostStep(db, r) ==
  LET postId == Cast(r.id)
  IN CASE r.pc = "start" ->
            IF ~Exists(db.posts, postId)
              THEN [db |-> db, r |-> Reply(r, 404, "Post not found")]
              ELSE [db |-> db,
                    r |-> [r EXCEPT !.pc = "save",
                                    !.local.views = db.posts[postId].views + 1]]
       [] r.pc = "save" ->
            \* post.save() sets the modified path views to the value computed
            \* from the document read; it throws when the document is gone
            IF ~Exists(db.posts, postId)
              THEN [db |-> db, r |-> Reply(r, 500, "Server error")]
              ELSE [db |-> [db EXCEPT !.posts[postId].views = r.local.views],
                    r |-> Reply(r, 200, "")]

\* the slip of calling deleteOne: one matching document is removed
DeleteOneOfMany(coll, field, value) ==
  LET hit == {d \in DOMAIN coll : coll[d][field] = value}
      gone == IF hit = {} THEN {} ELSE {CHOOSE d \in hit : TRUE}
  IN [c \in DOMAIN coll \ gone |-> coll[c]]

\* Comment.deleteMany({field: value})
DeleteMany(coll, field, value) ==
  [c \in {d \in DOMAIN coll : coll[d][field] # value} |-> coll[c]]

\* findByIdAndDelete(id)
DeleteById(coll, id) == [c \in DOMAIN coll \ {id} |-> coll[c]]

\* DELETE /posts/:postId
DeletePostStep(db, r) ==
  LET postId == Cast(r.id)
  IN CASE r.pc = "start" ->
            IF ~Exists(db.posts, postId)
              THEN [db |-> db, r |-> Reply(r, 404, "Post not found")]
            ELSE IF toString(db.posts[postId].author) # toString(r.user)
              THEN [db |-> db,
                    r |-> Reply(r, 403, "Not authorized to delete this post")]
            ELSE [db |-> db, r |-> [r EXCEPT !.pc = "deleteComments"]]
       [] r.pc = "deleteComments" ->
            [db |-> [db EXCEPT !.comments =
                                 DeleteMany(@, "post", postId)],
             r |-> [r EXCEPT !.pc = "deletePost"]]
       [] r.pc = "deletePost" ->
            [db |-> [db EXCEPT !.posts = DeleteById(@, postId)],
             r |-> Reply(r, 200, "Post deleted successfully")]

\* the like toggle of a post or a comment: read the likes, then $pull or $push
LikeStep(db, r, coll, notFound, unliked, liked) ==
  LET id == Cast(r.id)
  IN CASE r.pc = "start" ->
            IF ~Exists(db[coll], id)
              THEN [db |-> db, r |-> Reply(r, 404, notFound)]
            ELSE IF IncludesId(db[coll][id].likes, r.user)
              THEN [db |-> db, r |-> [r EXCEPT !.pc = "pull"]]
              ELSE [db |-> db, r |-> [r EXCEPT !.pc = "push"]]
       [] r.pc = "pull" ->
            [db |-> IF Exists(db[coll], id)
                      THEN [db EXCEPT ![coll][id].likes = Pull(@, r.user)]
                      ELSE db,
             r |-> [Reply(r, 200, unliked) EXCEPT !.liked = FALSE]]
       [] r.pc = "push" ->
            [db |-> IF Exists(db[coll], id)
                      THEN [db EXCEPT ![coll][id].likes = Push(@, r.user)]
                      ELSE db,
             r |-> [Reply(r, 200, liked) EXCEPT !.liked = TRUE]]

\* POST /posts/:postId/like
LikePostStep(db, r) ==
  LikeStep(db, r, "posts", "Post not found", "Post unliked successfully",
           "Post liked successfully")

\* --------------------------------------------------------- comments router
\* POST /comments/:commentId/like
LikeCommentStep(db, r) ==
  LikeStep(db, r, "comments", "Comment not found",
           "Comment unliked successfully", "Comment liked successfully")

NewComment(author, post, content, parentComment, createdAt) ==
  [author |-> author, post |-> post, content |-> content,
   parentComment |-> parentComment, replies |-> <<>>, likes |-> <<>>,
   createdAt |-> createdAt]

\* the slip of saving the comment before looking the parent comment up
CreateCommentStepSavesFirst(db, r) ==
  LET postId == Cast(r.postId)
      parentCommentId == Cast(r.parentCommentId)
      id == db.nextId.comment
      saved == [db EXCEPT
                  !.comments = (id :> NewComment(r.user, postId, r.content,
                                                 parentCommentId, db.now)) @@ @,
                  !.nextId.comment = id + 1]
  IN IF ~r.valid THEN Invalid(db, r)
     ELSE IF ~Exists(db.posts, postId)
       THEN [db |-> db, r |-> Reply(r, 404, "Post not found")]
     ELSE IF r.parentCommentId # NullParam
             /\ ~Exists(db.comments, parentCommentId)
       THEN [db |-> saved, r |-> Reply(r, 404, "Parent comment not found")]
     ELSE [db |-> [saved EXCEPT
                     !.comments =
                        IF r.parentCommentId # NullParam
                          THEN [@ EXCEPT ![parentCommentId].replies =
                                            Push(@, id)]
                          ELSE @,
                     !.posts[postId].comments = Push(@, id)],
           r |-> [Reply(r, 201, "Comment created successfully")
                    EXCEPT !.local.id = id]]

\* POST /comments with body {postId, parentCommentId}
CreateCommentStep(db, r) ==
  LET postId == Cast(r.postId)
      parentCommentId == Cast(r.parentCommentId)
      isReply == r.parentCommentId # NullParam
  IN CASE r.pc = "start" ->
            IF ~r.valid THEN Invalid(db, r)
            ELSE IF ~Exists(db.posts, postId)
              THEN [db |-> db, r |-> Reply(r, 404, "Post not found")]
              ELSE [db |-> db,
                    r |-> [r EXCEPT !.pc = IF isReply THEN "parentComment"
                                                      ELSE "save"]]
       [] r.pc = "parentComment" ->
            IF ~Exists(db.comments, parentCommentId)
              THEN [db |-> db, r |-> Reply(r, 404, "Parent comment not found")]
              ELSE [db |-> db, r |-> [r EXCEPT !.pc = "save"]]
       [] r.pc = "save" ->
            LET id == db.nextId.comment
            IN [db |-> [db EXCEPT
                         !.comments =
                            (id :> NewComment(r.user, postId, r.content,
                                             parentCommentId, db.now))
                              @@ @,
                         !.nextId.comment = id + 1],
                r |-> [r EXCEPT !.pc = IF isReply THEN "pushReply"
                                                  ELSE "pushComment",
                                !.local.id = id]]
       [] r.pc = "pushReply" ->
            [db |-> IF Exists(db.comments, parentCommentId)
                      THEN [db EXCEPT !.comments[parentCommentId].replies =
                                          Push(@, r.local.id)]
                      ELSE db,
             r |-> [r EXCEPT !.pc = "pushComment"]]
       [] r.pc = "pushComment" ->
            [db |-> IF Exists(db.posts, postId)
                      THEN [db EXCEPT !.posts[postId].comments =
                                          Push(@, r.local.id)]
                      ELSE db,
             r |-> Reply(r, 201, "Comment created successfully")]

\* the slip of updating without looking at the author
UpdateCommentStepByAnyone(db, r) ==
  LET commentId == Cast(r.id)
  IN IF ~r.valid THEN Invalid(db, r)
     ELSE IF ~Exists(db.comments, commentId)
       THEN [db |-> db, r |-> Reply(r, 404, "Comment not found")]
     ELSE [db |-> [db EXCEPT !.comments[commentId].content = r.content],
           r |-> Reply(r, 200, "Comment updated successfully")]

\* PUT /comments/:commentId
UpdateCommentStep(db, r) ==
  LET commentId == Cast(r.id)
  IN CASE r.pc = "start" ->
            IF ~r.valid THEN Invalid(db, r)
            ELSE IF ~Exists(db.comments, commentId)
              THEN [db |-> db, r |-> Reply(r, 404, "Comment not found")]
            ELSE IF toString(db.comments[commentId].author) # toString(r.user)
              THEN [db |-> db,
                    r |-> Reply(r, 403, "Not authorized to update this comment")]
            ELSE [db |-> db, r |-> [r EXCEPT !.pc = "update"]]
       [] r.pc = "update" ->
            [db |-> IF Exists(db.comments, commentId)
                      THEN [db EXCEPT !.comments[commentId].content = r.content]
                      ELSE db,
             r |-> Reply(r, 200, "Comment updated successfully")]

\* DELETE /comments/:commentId
DeleteCommentStep(db, r) ==
  LET commentId == Cast(r.id)
  IN CASE r.pc = "start" ->
            IF ~Exists(db.comments, commentId)
              THEN [db |-> db, r |-> Reply(r, 404, "Comment not found")]
            ELSE IF toString(db.comments[commentId].author) # toString(r.user)
              THEN [db |-> db,
                    r |-> Reply(r, 403, "Not authorized to delete this comment")]
            ELSE [db |-> db,
                  r |-> [r EXCEPT
                           !.pc = "pullComment",
                           !.local.post = db.comments[commentId].post,
                           !.local.parentComment =
                               db.comments[commentId].parentComment]]
       [] r.pc = "pullComment" ->
            [db |-> IF Exists(db.posts, r.local.post)
                      THEN [db EXCEPT !.posts[r.local.post].comments =
                                          Pull(@, commentId)]
                      ELSE db,
             r |-> [r EXCEPT !.pc = IF r.local.parentComment # 0
                                      THEN "pullReply" ELSE "deleteReplies"]]
       [] r.pc = "pullReply" ->
            [db |-> IF Exists(db.comments, r.local.parentComment)
                      THEN [db EXCEPT
                              !.comments[r.local.parentComment].replies =
                                  Pull(@, commentId)]
                      ELSE db,
             r |-> [r EXCEPT !.pc = "deleteReplies"]]
       [] r.pc = "deleteReplies" ->
            [db |-> [db EXCEPT !.comments =
                        DeleteMany(@, "parentComment", commentId)],
             r |-> [r EXCEPT !.pc = "deleteComment"]]
       [] r.pc = "deleteComment" ->
            [db |-> [db EXCEPT !.comments = DeleteById(@, commentId)],
             r |-> Reply(r, 200, "Comment deleted successfully")]

\* ------------------------------------ posts router: comments under a post
\* POST /posts/:postId/comments: the handler of POST /comments with the post
\* id taken from the path
CreatePostCommentStep(db, r) == CreateCommentStep(db, r)

\* DELETE /posts/:postId/comments/:commentId
DeletePostCommentStep(db, r) ==
  LET commentId == Cast(r.id)
      postId == Cast(r.postId)
  IN CASE r.pc = "start" ->
            IF ~Exists(db.comments, commentId)
              THEN [db |-> db, r |-> Reply(r, 404, "Comment not found")]
            ELSE IF toString(db.comments[commentId].author) # toString(r.user)
              THEN [db |-> db,
                    r |-> Reply(r, 403, "Not authorized to delete this comment")]
            ELSE [db |-> db,
                  r |-> [r EXCEPT
                           !.pc = "pullComment",
                           !.local.parentComment =
                               db.comments[commentId].parentComment]]
       [] r.pc = "pullComment" ->
            \* the comments list is that of the post of the path
            [db |-> IF Exists(db.posts, postId)
                      THEN [db EXCEPT !.posts[postId].comments =
                                          Pull(@, commentId)]
                      ELSE db,
             r |-> [r EXCEPT !.pc = IF r.local.parentComment # 0
                                      THEN "pullReply" ELSE "deleteReplies"]]
       [] r.pc = "pullReply" ->
            [db |-> IF Exists(db.comments, r.local.parentComment)
                      THEN [db EXCEPT
                              !.comments[r.local.parentComment].replies =
                                  Pull(@, commentId)]
                      ELSE db,
             r |-> [r EXCEPT !.pc = "deleteReplies"]]
       [] r.pc = "deleteReplies" ->
            [db |-> [db EXCEPT !.comments =
                        DeleteMany(@, "parentComment", commentId)],
             r |-> [r EXCEPT !.pc = "deleteComment"]]
       [] r.pc = "deleteComment" ->
            [db |-> [db EXCEPT !.comments = DeleteById(@, commentId)],
             r |-> Reply(r, 200, "Comment deleted successfully")]

\* ------------------------------------------------------ paginated listings
\* Math.ceil(total / limit) for a total of 0 or more and a limit other
\* than 0
CeilDiv(total, limit) == IF limit > 0 THEN (total + limit - 1) \div limit
                         ELSE -(total \div (-limit))

\* if (type) query.type = type
TypeFilter(r, post) == r.type = "" \/ post.type = r.type

\* if (author) query.author = author
AuthorFilter(r, post) == r.author = NullParam \/ post.author = Cast(r.author)

\* GET /posts/user/:userId is about the caller's own posts
OwnPostsAsked(r) == r.user # Anonymous /\ r.id = toString(r.user)

\* the documents a listing's filter selects
\*   GET /posts                      {isPublic: true, type, author}
\*   GET /posts/explore              {isPublic: true, type}
\*   GET /posts/liked                {likes: req.user._id, isPublic: true}
\*   GET /posts/user/:userId         {author, type, isPublic: true unless own}
\*   GET /comments/post/:postId      {post, parentComment: null}
\*   GET /posts/:postId/comments     {post, parentComment: null}
\*   GET /comments/:commentId/replies {parentComment}
Matching(db, r) ==
  CASE r.kind = "listPosts" ->
         {p \in DOMAIN db.posts : /\ db.posts[p].isPublic
                                  /\ TypeFilter(r, db.posts[p])
                                  /\ AuthorFilter(r, db.posts[p])}
    [] r.kind = "explore" ->
         {p \in DOMAIN db.posts : /\ db.posts[p].isPublic
                                  /\ TypeFilter(r, db.posts[p])}
    [] r.kind = "listLiked" ->
         {p \in DOMAIN db.posts : /\ IncludesId(db.posts[p].likes, r.user)
                                  /\ db.posts[p].isPublic}
    [] r.kind = "listUserPosts" ->
         {p \in DOMAIN db.posts : /\ db.posts[p].author = Cast(r.id)
                                  /\ TypeFilter(r, db.posts[p])
                                  /\ OwnPostsAsked(r) \/ db.posts[p].isPublic}
    [] r.kind \in {"listComments", "listPostComments"} ->
         {c \in DOMAIN db.comments : /\ db.comments[c].post = Cast(r.id)
                                     /\ db.comments[c].parentComment = 0}
    [] r.kind = "listReplies" ->
         {c \in DOMAIN db.comments : db.comments[c].parentComment = Cast(r.id)}

PostLists == {"listPosts", "explore", "listLiked", "listUserPosts"}

ListedColl(db, r) == IF r.kind \in PostLists THEN db.posts ELSE db.comments

\* sort({createdAt: -1}), and sort({createdAt: 1}) for the replies
Before(r, a, b) == IF r.kind = "listReplies" THEN a <= b ELSE a >= b

\* the orders in which sort() may return the documents ids: sorted by
\* createdAt, documents with equal createdAt in any order
SortOrders(coll, ids, r) ==
  {o \in [1..Cardinality(ids) -> ids] :
     /\ \A i \in DOMAIN o, j \in DOMAIN o : i # j => o[i] # o[j]
     /\ \A i \in DOMAIN o, j \in DOMAIN o :
          i < j => Before(r, coll[o[i]].createdAt, coll[o[j]].createdAt)}

\* the place of document d in the hand-out order
Pos(order, d) == CHOOSE i \in DOMAIN order : order[i] = d

\* find(filter).sort().skip((page - 1) * limit).limit(limit), then
\* countDocuments(filter)
ListStep(db, r) ==
  LET page == IF r.kind = "explore" THEN 1 ELSE ParseIntOr(r.page, 1)
      limit == ParseIntOr(r.limit, IF r.kind = "explore" THEN 20 ELSE 10)
      skip == (page - 1) * limit
      q == [r EXCEPT !.local.page = page, !.local.limit = limit,
                     !.local.skip = skip]
  IN CASE r.pc = "start" ->
            LET ids == Matching(db, r)
                coll == ListedColl(db, r)
                sorted == CHOOSE o \in SortOrders(coll, ids, r) :
                            \A i \in DOMAIN o, j \in DOMAIN o :
                               (/\ i < j
                                /\ coll[o[i]].createdAt = coll[o[j]].createdAt)
                               => Pos(r.order, o[i]) < Pos(r.order, o[j])
                \* a negative limit is served as its absolute value
                size == IF limit < 0 THEN -limit ELSE limit
                last == IF skip + size < Len(sorted) THEN skip + size
                        ELSE Len(sorted)
                results == SubSeq(sorted, skip + 1, last)
            IN \* the server rejects a negative skip and find() throws
               IF skip < 0
                 THEN [db |-> db, r |-> Reply(q, 500, "Server error")]
               \* the explore listing answers without a count
               ELSE IF r.kind = "explore"
                 THEN [db |-> db,
                       r |-> [Reply(q, 200, "") EXCEPT !.results = results]]
                 ELSE [db |-> db,
                       r |-> [q EXCEPT !.pc = "count", !.results = results]]
       [] r.pc = "count" ->
            LET total == Cardinality(Matching(db, r))
            IN [db |-> db,
                r |-> [Reply(r, 200, "") EXCEPT
                         !.pagination = [page |-> page, limit |-> limit,
                                         total |-> total,
                                         pages |-> CeilDiv(total, limit)]]]

\* ---------------------------------------------------------- authentication
\* The identity of a request is the user its token names: Anonymous when the
\* token is missing, malformed or expired, and an id outside the users
\* collection when it names a user that does not exist.
Authenticated(db, r) == Exists(db.users, r.user)

\* auth: a request without a valid identity is rejected
Unauthorized(db, r) == [db |-> db, r |-> Reply(r, 401, "Unauthorized")]

\* optionalAuth: never rejects, req.user stays unset without a valid identity
OptionalAuth(db, r) ==
  IF Authenticated(db, r) THEN r ELSE [r EXCEPT !.user = Anonymous]

\* the slip of declaring the like route of a post without auth
ProtectedButLike ==
  {"follow", "unfollow", "createPost", "updatePost", "deletePost",
   "likeComment", "createComment", "updateComment", "deleteComment",
   "listLiked", "updateProfile", "createPostComment", "deletePostComment"}

\* the routes declared with the auth middleware
Protected ==
  {"follow", "unfollow", "createPost", "updatePost", "deletePost",
   "likePost", "likeComment", "createComment", "updateComment",
   "deleteComment", "listLiked", "updateProfile", "createPostComment",
   "deletePostComment"}

\* ------------------------------------------------------------- dispatching
Handler(db, r) ==
  CASE r.kind = "follow" -> FollowStep(db, r)
    [] r.kind = "unfollow" -> UnfollowStep(db, r)
    [] r.kind = "getUser" -> GetUserStep(db, r)
    [] r.kind = "updateProfile" -> UpdateProfileStep(db, r)
    [] r.kind = "createPost" -> CreatePostStep(db, r)
    [] r.kind = "getPost" -> GetPostStep(db, r)
    [] r.kind = "updatePost" -> UpdatePostStep(db, r)
    [] r.kind = "deletePost" -> DeletePostStep(db, r)
    [] r.kind = "likePost" -> LikePostStep(db, r)
    [] r.kind = "likeComment" -> LikeCommentStep(db, r)
    [] r.kind = "createComment" -> CreateCommentStep(db, r)
    [] r.kind = "updateComment" -> UpdateCommentStep(db, r)
    [] r.kind = "deleteComment" -> DeleteCommentStep(db, r)
    [] r.kind = "createPostComment" -> CreatePostCommentStep(db, r)
    [] r.kind = "deletePostComment" -> DeletePostCommentStep(db, r)
    [] r.kind \in PostLists \cup {"listComments", "listPostComments",
                                  "listReplies"} ->
         ListStep(db, r)

\* the slip of reporting the failure of a call whose write went through
CatchAfterWrite(db, r) ==
  [db |-> Handler(db, r).db, r |-> Reply(r, 500, "Server error")]

\* catch (error): the database call of the step threw; the request is
\* answered 500 and no further statement of the handler runs
Catch(db, r) == [db |-> db, r |-> Reply(r, 500, "Server error")]

\* the handler's step inside try: r.failAt names the database call that
\* throws in this request, "" when none does
Try(db, r) == IF r.pc = r.failAt THEN Catch(db, r) ELSE Handler(db, r)

\* the middleware of the route runs before the handler's first step
Step(db, r) ==
  IF r.pc # "start" THEN Try(db, r)
  ELSE IF r.kind \notin Protected THEN Try(db, OptionalAuth(db, r))
  ELSE IF Authenticated(db, r) THEN Try(db, r)
  ELSE Unauthorized(db, r)

\* a handler run from its first to its last step with no other request
\* in between
RECURSIVE Run(_, _)
Run(db, r) == IF r.pc = "done" THEN [db |-> db, r |-> r]
              ELSE LET s == Step(db, r) IN Run(s.db, s.r)

Install(db) ==
  /\ users' = db.users
  /\ posts' = db.posts
  /\ comments' = db.comments
  /\ nextId' = db.nextId
  /\ now' = db.now

\* sequential service: the request is served to completion before the next
\* one arrives, so no request is ever in flight between two steps
Serve(r) ==
  /\ Install(Run(DB, r).db)
  /\ UNCHANGED <<reqs, client>>

\* concurrent service: a request arrives in the first free slot and performs
\* its first step; later steps are taken one at a time
FreeSlot(s) == /\ reqs[s].pc = "idle"
               /\ \A t \in 1..(s - 1) : reqs[t].pc # "idle"

Arrive(r) ==
  \E s \in 1..NumSlots :
     /\ FreeSlot(s)
     /\ LET res == Step(DB, r)
        IN /\ Install(res.db)
           /\ reqs' = [reqs EXCEPT ![s] = res.r]
           /\ UNCHANGED client

Advance(kind) ==
  \E s \in 1..NumSlots :
     /\ reqs[s].kind = kind
     /\ reqs[s].pc \notin {"idle", "done"}
     /\ LET res == Step(DB, reqs[s])
        IN /\ Install(res.db)
           /\ reqs' = [reqs EXCEPT ![s] = res.r]
           /\ UNCHANGED client

Quiescent == \A s \in 1..NumSlots : reqs[s].pc \in {"idle", "done"}

\* ------------------------------------------------------------------ client
\* the user who is logged in at the client
Viewer == 1

\* PostCard: useState(post.isLiked || false), useState(post.likes.length);
\* no card is shown before the feed has loaded
NoCard == [loaded |-> FALSE, post |-> 0, isLiked |-> FALSE, likeCount |-> 0]

\* UserProfile: user is null and following false before the profile has
\* loaded
NoProfile == [loaded |-> FALSE, viewed |-> 0, following |-> FALSE,
              followers |-> <<>>]

\* ------------------------------------------------------------------- state
NewUser(u) == [username |-> u, email |-> u, followers |-> <<>>,
               following |-> <<>>]

Init ==
  /\ users = [u \in UserIds |-> NewUser(u)]
  /\ posts = <<>>
  /\ comments = <<>>
  /\ nextId = [post |-> 1, comment |-> 1]
  /\ now = 0
  /\ reqs = [s \in 1..NumSlots |-> Idle]
  /\ card = NoCard
  /\ profile = NoProfile

RECURSIVE SumLen(_, _)
SumLen(f, S) == IF S = {} THEN 0
                ELSE LET x == CHOOSE y \in S : TRUE
                     IN Len(f[x]) + SumLen(f, S \ {x})

\* the number of entries of all following lists
FollowCount == SumLen([u \in UserIds |-> users[u].following], UserIds)

\* ------------------------------------------- follow, one request at a time
Follow ==
  \E me \in UserIds, p \in Params(AnyUserId) :
     FollowCount < MaxFollows /\ Serve(NewReq("follow", me, p))

Unfollow ==
  \E me \in UserIds, p \in Params(AnyUserId) :
     Serve(NewReq("unfollow", me, p))

NextFollowSeq == Follow \/ Unfollow

SpecFollowSeq == Init /\ [][NextFollowSeq]_vars

\* ---------------------------------- profile updates, one at a time
UpdateProfile ==
  \E me \in UserIds, username \in Names \cup {NoName},
     email \in Names \cup {NoName} :
     Serve(NewProfileUpdate(me, username, email))

NextProfileSeq == UpdateProfile

SpecProfileSeq == Init /\ [][NextProfileSeq]_vars

\* ------------------------------------------- follow, concurrent requests
FollowArrives ==
  \E me \in UserIds, p \in Params(AnyUserId) : Arrive(NewReq("follow", me, p))

UnfollowArrives ==
  \E me \in UserIds, p \in Params(AnyUserId) : Arrive(NewReq("unfollow", me, p))

FollowAdvances == Advance("follow")

UnfollowAdvances == Advance("unfollow")

NextFollow ==
  \/ FollowArrives
  \/ UnfollowArrives
  \/ FollowAdvances
  \/ UnfollowAdvances

SpecFollow == Init /\ [][NextFollow]_vars

\* ------------------------------- posts and comments, one request at a time
\* the canonical spelling of each id of a set
Canonical(ids) == {toString(i) : i \in ids}

\* the creating requests take the callers and the body values to draw from:
\* a specification whose handlers never read a field creates with one value
CreatePost(authors, visibilities, cap) ==
  \E me \in authors, isPublic \in visibilities :
     /\ nextId.post <= cap
     /\ Serve(NewPostReq(me, isPublic))

CreateComment(authors, parents, cap) ==
  \E me \in authors, postId \in Canonical(AnyPostId),
     parentCommentId \in parents :
     /\ nextId.comment <= cap
     /\ Serve(NewCommentReq(me, postId, parentCommentId))

DeleteComment ==
  \E me \in UserIds, commentId \in Canonical(AnyCommentId) :
     Serve(NewReq("deleteComment", me, commentId))

DeletePost ==
  \E me \in UserIds, postId \in Canonical(AnyPostId) :
     Serve(NewReq("deletePost", me, postId))

\* the number of entries of all likes lists
LikeCount ==
  SumLen([p \in DOMAIN posts |-> posts[p].likes], DOMAIN posts)
    + SumLen([c \in DOMAIN comments |-> comments[c].likes], DOMAIN comments)

LikePost ==
  \E me \in UserIds, postId \in Canonical(AnyPostId) :
     /\ LikeCount < MaxLikes
     /\ Serve(NewReq("likePost", me, postId))

LikeComment ==
  \E me \in UserIds, commentId \in Canonical(AnyCommentId) :
     /\ LikeCount < MaxLikes
     /\ Serve(NewReq("likeComment", me, commentId))

GetPost ==
  \E me \in UserIds \cup {Anonymous}, postId \in Canonical(AnyPostId) :
     /\ \A p \in DOMAIN posts : posts[p].views < MaxViews
     /\ Serve(NewReq("getPost", me, postId))

AnyParent == {NullParam} \cup Canonical(AnyCommentId)

NextCommentSeq ==
  \/ CreatePost({1}, {TRUE}, MaxPosts)
  \/ CreateComment({1, 2}, AnyParent, MaxComments)
  \/ DeleteComment
  \/ DeletePost

SpecCommentSeq == Init /\ [][NextCommentSeq]_vars

NextLikeSeq ==
  \/ CreatePost({1}, {TRUE}, MaxPosts)
  \/ CreateComment({1}, {NullParam}, MaxLikedComments)
  \/ DeleteComment
  \/ LikePost
  \/ LikeComment

SpecLikeSeq == Init /\ [][NextLikeSeq]_vars

NextViewSeq ==
  \/ CreatePost({1, 2}, BOOLEAN, MaxPosts)
  \/ LikePost
  \/ GetPost

SpecViewSeq == Init /\ [][NextViewSeq]_vars

\* ------------------------- updates and deletions, one request at a time
\* the users who write and edit in these runs
Owners == {1, 2}

\* the ids of the documents of a collection and one that names none of them
Known(coll, next) == Canonical(DOMAIN coll \cup {next})

UpdatePost ==
  \E me \in Owners, postId \in Known(posts, nextId.post),
     body \in {[valid |-> FALSE, setPublic |-> NoBool]}
                \cup [valid : {TRUE}, setPublic : BodyBools] :
     Serve(NewPostUpdate(me, postId, body.valid, body.setPublic))

UpdateComment ==
  \E me \in Owners, commentId \in Known(comments, nextId.comment),
     body \in {[valid |-> FALSE, content |-> ""]}
                \cup [valid : {TRUE}, content : Contents] :
     Serve(NewCommentUpdate(me, commentId, body.valid, body.content))

DeleteKnownComment ==
  \E me \in Owners, commentId \in Known(comments, nextId.comment) :
     Serve(NewReq("deleteComment", me, commentId))

DeleteKnownPost ==
  \E me \in Owners, postId \in Known(posts, nextId.post) :
     Serve(NewReq("deletePost", me, postId))

NextOwnerSeq ==
  \/ CreatePost({1}, {TRUE}, MaxPosts)
  \/ CreateComment(Owners, {NullParam, toString(1)}, MaxOwned)
  \/ UpdatePost
  \/ UpdateComment
  \/ DeleteKnownComment
  \/ DeleteKnownPost

SpecOwnerSeq == Init /\ [][NextOwnerSeq]_vars

\* ----------------------------------------------- likes, concurrent requests
\* the post and the comment are created by requests served on their own; the
\* like requests interleave their read and their update
LikePostArrives ==
  \E me \in UserIds, postId \in Canonical(AnyPostId) :
     Arrive(NewReq("likePost", me, postId))

LikeCommentArrives ==
  \E me \in UserIds, commentId \in Canonical(AnyCommentId) :
     Arrive(NewReq("likeComment", me, commentId))

LikePostAdvances == Advance("likePost")

LikeCommentAdvances == Advance("likeComment")

NextLike ==
  \/ CreatePost({1}, {TRUE}, MaxPosts)
  \/ CreateComment({1}, {NullParam}, MaxLikedComments)
  \/ LikePostArrives
  \/ LikeCommentArrives
  \/ LikePostAdvances
  \/ LikeCommentAdvances

SpecLike == Init /\ [][NextLike]_vars

\* --------------------------------------- single-post fetches, concurrent
GetPostArrives ==
  \E me \in UserIds \cup {Anonymous}, postId \in Canonical(AnyPostId) :
     Arrive(NewReq("getPost", me, postId))

GetPostAdvances == Advance("getPost")

NextView ==
  \/ CreatePost({1}, BOOLEAN, MaxPosts)
  \/ GetPostArrives
  \/ GetPostAdvances

SpecView == Init /\ [][NextView]_vars

\* ------------------------------------- listings, page after page, no writes
\* posts and comments are created while the clock ticks; then one listing is
\* walked page by page, the answer to page k kept in slot k
NoListing == \A s \in 1..NumSlots : reqs[s].pc = "idle"

Tick ==
  /\ NoListing
  /\ now < MaxClock
  /\ now' = now + 1
  /\ UNCHANGED <<users, posts, comments, nextId, reqs, client>>

PostCreated == NoListing /\ CreatePost({1}, BOOLEAN, MaxListed)

CommentCreated == NoListing /\ CreateComment({1}, AnyParent, MaxListed)

\* the orders in which the storage engine may hand out the documents ids
HandOuts(ids) ==
  {o \in [1..Cardinality(ids) -> ids] :
     \A i \in DOMAIN o, j \in DOMAIN o : i # j => o[i] # o[j]}

ListKinds == {"listPosts", "listComments", "listReplies"}

ListedIds(kind) == IF kind \in PostLists THEN DOMAIN posts ELSE DOMAIN comments

\* the resource a listing names in its path
ListedParam(kind) ==
  CASE kind = "listPosts" -> {NullParam}
    [] kind = "listComments" -> Canonical(AnyPostId)
    [] kind = "listReplies" -> Canonical(AnyCommentId)

Answer(s, r) ==
  /\ reqs' = [reqs EXCEPT ![s] = Run(DB, r).r]
  /\ UNCHANGED <<users, posts, comments, nextId, now, client>>

FirstPage ==
  \E kind \in ListKinds :
    \E id \in ListedParam(kind), order \in HandOuts(ListedIds(kind)),
       page \in {NoQuery, QueryInt(1)},
       limit \in {NoQuery} \cup {QueryInt(n) : n \in 1..MaxLimit} :
       /\ NoListing
       /\ Answer(1, NewListReq(kind, Anonymous, id, page, limit, order))

NextPage ==
  \E s \in 2..NumSlots, order \in HandOuts(ListedIds(reqs[1].kind)) :
     /\ reqs[s].pc = "idle"
     /\ reqs[s - 1].pc = "done"
     /\ s <= reqs[1].pagination.pages
     /\ Answer(s, NewListReq(reqs[1].kind, Anonymous, reqs[1].id, QueryInt(s),
                             reqs[1].limit, order))

NextPages == Tick \/ PostCreated \/ CommentCreated \/ FirstPage \/ NextPage

SpecPage == Init /\ [][NextPages]_vars

\* ------------------------------------------- listings of posts, answered
\* posts are written and liked; then one listing of posts is asked and its
\* answer kept in slot 1
PostWritten ==
  \E me \in Owners, isPublic \in BOOLEAN, type \in PostTypes :
     /\ NoListing
     /\ nextId.post <= MaxListed
     /\ Serve([NewPostReq(me, isPublic) EXCEPT !.type = type])

PostLiked ==
  \E me \in Owners, postId \in Known(posts, nextId.post) :
     /\ NoListing
     /\ LikeCount < MaxLikes
     /\ Serve(NewReq("likePost", me, postId))

\* one of the orders in which the storage engine may hand out the documents
AnyHandOut(ids) == CHOOSE o \in HandOuts(ids) : TRUE

\* the listings of posts a caller can ask for
PostListRequests(u) ==
  LET o == AnyHandOut(DOMAIN posts)
      types == {""} \cup PostTypes
  IN {NewPostListReq("listPosts", u, NullParam, t, a, NoQuery, o) :
        t \in types, a \in {NullParam} \cup Canonical(Owners)}
     \cup {NewPostListReq("explore", u, NullParam, t, NullParam, NoQuery, o) :
            t \in types}
     \cup {NewPostListReq("listLiked", u, NullParam, "", NullParam, NoQuery, o)}
     \cup {NewPostListReq("listUserPosts", u, p, t, NullParam, NoQuery, o) :
            t \in types, p \in Params(Owners)}

PostsListed ==
  \E u \in UserIds \cup {Anonymous} :
    \E r \in PostListRequests(u) :
       /\ NoListing
       /\ Answer(1, r)

NextPostList == PostWritten \/ PostLiked \/ PostsListed

SpecPostList == Init /\ [][NextPostList]_vars

\* --------------------------- comments under a post, one request at a time
CreatePostComment ==
  \E me \in Owners, postId \in Known(posts, nextId.post),
     parentCommentId \in {NullParam, toString(1)} :
     /\ nextId.comment <= MaxThreadComments
     /\ Serve(NewPostCommentReq(me, postId, parentCommentId))

DeletePostComment ==
  \E me \in Owners, postId \in Known(posts, nextId.post),
     commentId \in Known(comments, nextId.comment) :
     Serve(NewPostCommentDelete(me, postId, commentId))

NextNestedSeq ==
  \/ CreatePost({1}, {TRUE}, MaxThreadPosts)
  \/ CreatePostComment
  \/ DeletePostComment
  \/ DeleteKnownComment
  \/ DeleteKnownPost

SpecNestedSeq == Init /\ [][NextNestedSeq]_vars

\* ------------------------------------ database calls that fail, one request
\* at a time: any database call of a request may throw
FailPoints(kind) ==
  CASE kind = "follow" -> {"start", "currentUser", "pullFollowing",
                           "pullFollowers", "pushFollowing", "pushFollowers"}
    [] kind = "unfollow" -> {"start", "currentUser", "pullFollowing",
                             "pullFollowers"}
    [] kind = "createComment" -> {"start", "parentComment", "save",
                                  "pushReply", "pushComment"}
    [] kind = "deleteComment" -> {"start", "pullComment", "pullReply",
                                  "deleteReplies", "deleteComment"}
    [] kind = "deletePost" -> {"start", "deleteComments", "deletePost"}

\* the request r with its database call at the given step failing
Failing(r, at) == [r EXCEPT !.failAt = at]

\* the number of entries of all following and followers lists
FollowEntries ==
  FollowCount + SumLen([u \in UserIds |-> users[u].followers], UserIds)

FollowMayFail ==
  \E me \in Owners, p \in Canonical(Owners), k \in {"follow", "unfollow"} :
    \E at \in FailPoints(k) \cup {""} :
       /\ k = "follow" => FollowEntries < MaxFailFollows
       /\ Serve(Failing(NewReq(k, me, p), at))

CommentMayFail ==
  \E parentCommentId \in {NullParam, toString(1)},
     at \in FailPoints("createComment") \cup {""} :
     /\ nextId.comment <= MaxFailComments
     /\ Serve(Failing(NewCommentReq(1, toString(1), parentCommentId), at))

CommentDeletionMayFail ==
  \E commentId \in Known(comments, nextId.comment),
     at \in FailPoints("deleteComment") \cup {""} :
     Serve(Failing(NewReq("deleteComment", 1, commentId), at))

PostDeletionMayFail ==
  \E at \in FailPoints("deletePost") \cup {""} :
     Serve(Failing(NewReq("deletePost", 1, toString(1)), at))

NextFailSeq ==
  \/ CreatePost({1}, {TRUE}, MaxPosts)
  \/ FollowMayFail
  \/ CommentMayFail
  \/ CommentDeletionMayFail
  \/ PostDeletionMayFail

SpecFailSeq == Init /\ [][NextFailSeq]_vars

\* ------------------------- comment creation and post deletion, concurrent
CommentArrives ==
  \E me \in Owners, kind \in {"createComment", "createPostComment"},
     postId \in Known(posts, nextId.post) :
     /\ nextId.comment <= MaxRaceComments
     /\ Arrive([NewCommentReq(me, postId, NullParam) EXCEPT !.kind = kind])

CommentAdvances == Advance("createComment")

PostCommentAdvances == Advance("createPostComment")

PostDeletionArrives ==
  \E postId \in Known(posts, nextId.post) :
     Arrive(NewReq("deletePost", 1, postId))

PostDeletionAdvances == Advance("deletePost")

NextOrphan ==
  \/ CreatePost({1}, {TRUE}, MaxPosts)
  \/ CommentArrives
  \/ CommentAdvances
  \/ PostCommentAdvances
  \/ PostDeletionArrives
  \/ PostDeletionAdvances

SpecOrphan == Init /\ [][NextOrphan]_vars

\* ----------------------------------------- the post card of the home feed
\* GET /posts: if (req.user) post.isLiked = post.likes.includes(req.user._id)
IsLikedSent(db, r, P) ==
  r.user # Anonymous /\ IncludesId(db.posts[P].likes, r.user)

\* likes served before the feed is loaded
LikedBefore ==
  \E me \in Owners, postId \in Known(posts, nextId.post) :
     /\ ~card.loaded
     /\ LikeCount < MaxCardLikes
     /\ Serve(NewReq("likePost", me, postId))

\* Home.fetchPosts: the feed is fetched without an Authorization header and
\* a card is mounted for each post of the answer
FeedLoaded ==
  LET res == Run(DB, NewPostListReq("listPosts", Anonymous, NullParam, "",
                                    NullParam, NoQuery,
                                    AnyHandOut(DOMAIN posts)))
  IN \E i \in DOMAIN res.r.results :
       LET P == res.r.results[i]
       IN /\ ~card.loaded
          /\ card' = [loaded |-> TRUE, post |-> P,
                      isLiked |-> IsLikedSent(DB, res.r, P),
                      likeCount |-> Len(posts[P].likes)]
          /\ UNCHANGED <<users, posts, comments, nextId, now, reqs, profile>>

\* PostCard.handleLike up to its await: the request leaves with the isLiked
\* and likeCount of the render in which the click was made
LikeClicked ==
  /\ card.loaded
  /\ Arrive([NewReq("likePost", Viewer, toString(card.post)) EXCEPT
               !.local.isLiked = card.isLiked,
               !.local.likeCount = card.likeCount])

\* PostCard.handleLike after its await: if (response.ok) the state is set
\* from the values the handler closed over
LikeAnswered ==
  \E s \in 1..NumSlots :
     LET r == reqs[s]
     IN /\ r.kind = "likePost" /\ r.pc = "done" /\ ~r.seen
        /\ card' = IF r.status = 200
                     THEN [card EXCEPT
                             !.isLiked = ~r.local.isLiked,
                             !.likeCount = IF r.local.isLiked
                                             THEN r.local.likeCount - 1
                                             ELSE r.local.likeCount + 1]
                     ELSE card
        /\ reqs' = [reqs EXCEPT ![s].seen = TRUE]
        /\ UNCHANGED <<users, posts, comments, nextId, now, profile>>

NextCard ==
  \/ CreatePost(Owners, {TRUE}, MaxPosts)
  \/ LikedBefore
  \/ FeedLoaded
  \/ LikeClicked
  \/ LikePostAdvances
  \/ LikeAnswered

SpecCard == Init /\ [][NextCard]_vars

\* ------------------------------------------------ the user profile page
\* obj.name || dflt: the value of a property the object may lack
Field(obj, name, dflt) == IF name \in DOMAIN obj THEN obj[name] ELSE dflt

\* currentUser._id as the page adds it to the followers it shows
OwnId == [id |-> Viewer, populated |-> FALSE]

\* follows served before the profile page is loaded
FollowedBefore ==
  \E me \in UserIds, p \in Canonical(UserIds) :
     /\ ~profile.loaded
     /\ FollowCount < MaxProfileFollows
     /\ Serve(NewReq("follow", me, p))

\* fetchUserProfile: setUser(data.user); setFollowing(data.user.isFollowing
\* || false)
ProfileLoaded ==
  \E viewed \in UserIds \ {Viewer} :
     LET res == Run(DB, NewReq("getUser", Viewer, toString(viewed)))
     IN /\ ~profile.loaded
        /\ res.r.status = 200
        /\ profile' = [loaded |-> TRUE, viewed |-> viewed,
                       following |->
                          Field(res.r.body.user, "isFollowing", FALSE),
                       followers |-> res.r.body.user.followers]
        /\ UNCHANGED <<users, posts, comments, nextId, now, reqs, card>>

\* handleFollow: the request is sent and, if (response.ok), following is
\* negated and currentUser._id is filtered out of or added to the followers
FollowClicked ==
  LET res == Run(DB, NewReq("follow", Viewer, toString(profile.viewed)))
  IN /\ profile.loaded
     /\ Install(res.db)
     /\ profile' =
          IF res.r.status = 200
            THEN [profile EXCEPT
                    !.following = ~profile.following,
                    !.followers =
                       IF profile.following
                         THEN SelectSeq(@, LAMBDA e : e # OwnId)
                         ELSE Append(@, OwnId)]
            ELSE profile
     /\ UNCHANGED <<reqs, card>>

NextProfile == FollowedBefore \/ ProfileLoaded \/ FollowClicked

SpecProfile == Init /\ [][NextProfile]_vars

\* ------------------------------ listings with any page and limit, answered
\* the values the query parameters page and limit can have
QueryValues ==
  {NoQuery, NotANumber} \cup {QueryInt(n) : n \in (-MaxQuery)..MaxQuery}

QueriedPostCreated == NoListing /\ CreatePost({1}, {TRUE}, MaxQueried)

QueriedCommentCreated ==
  NoListing /\ CreateComment({1}, {NullParam, toString(1)}, MaxQueried)

QueriedKinds == {"listPosts", "explore", "listReplies"}

Queried ==
  \E kind \in QueriedKinds, page \in QueryValues, limit \in QueryValues :
     /\ NoListing
     /\ Answer(1, NewListReq(kind, Anonymous,
                             IF kind = "listReplies" THEN toString(1)
                             ELSE NullParam,
                             page, limit, AnyHandOut(ListedIds(kind))))

NextQuery == QueriedPostCreated \/ QueriedCommentCreated \/ Queried

SpecQuery == Init /\ [][NextQuery]_vars

\* ----------------------------------- categories, one request at a time
\* the categories a body can carry: those of the route's list and one that
\* is in no list
BodyCategories == CreateCategories \cup {"sports"}

NewCategorisedPost(user, type, category, isPublic) ==
  [NewPostReq(user, isPublic) EXCEPT !.type = type, !.category = category]

NewCategoryUpdate(user, id, category) ==
  [NewPostUpdate(user, id, TRUE, NoBool) EXCEPT !.category = category]

CategorisedPostCreated ==
  \E category \in BodyCategories, isPublic \in BOOLEAN :
     /\ nextId.post <= MaxCategorised
     /\ Serve(NewCategorisedPost(1, "note", category, isPublic))

PostRecategorised ==
  \E postId \in Known(posts, nextId.post), category \in BodyCategories :
     Serve(NewCategoryUpdate(1, postId, category))

NextCategorySeq == CategorisedPostCreated \/ PostRecategorised

SpecCategorySeq == Init /\ [][NextCategorySeq]_vars

\* ----------------------------- post updates with any body, one at a time
\* the bodies of an update: category and isPublic absent or given, and a
\* type and an author, which no validator of the route looks at
UpdateBodies ==
  [category : {"", "project"}, setPublic : BodyBools,
   identity : {[type |-> "", author |-> NullParam],
               [type |-> "job", author |-> toString(2)]}]

NewBodyUpdate(user, id, body) ==
  [NewPostUpdate(user, id, TRUE, body.setPublic) EXCEPT
     !.category = body.category, !.type = body.identity.type,
     !.author = body.identity.author]

\* the number of likes, views and comments of all posts
Activity ==
  LikeCount + Cardinality(DOMAIN comments)
    + SumLen([p \in DOMAIN posts |-> [i \in 1..posts[p].views |-> i]],
             DOMAIN posts)

BodyPostCreated ==
  \E type \in PostTypes :
     /\ nextId.post <= MaxPosts
     /\ Serve(NewCategorisedPost(1, type, "academic", TRUE))

BodyPostUpdated ==
  \E postId \in Known(posts, nextId.post), body \in UpdateBodies :
     Serve(NewBodyUpdate(1, postId, body))

BodyPostLiked ==
  \E me \in Owners, postId \in Known(posts, nextId.post) :
     /\ Activity < MaxFramed
     /\ Serve(NewReq("likePost", me, postId))

BodyPostFetched ==
  \E postId \in Known(posts, nextId.post) :
     /\ Activity < MaxFramed
     /\ Serve(NewReq("getPost", Anonymous, postId))

BodyPostCommented ==
  \E postId \in Known(posts, nextId.post) :
     /\ Activity < MaxFramed
     /\ Serve(NewCommentReq(1, postId, NullParam))

NextBodySeq ==
  \/ BodyPostCreated
  \/ BodyPostUpdated
  \/ BodyPostLiked
  \/ BodyPostFetched
  \/ BodyPostCommented

SpecBodySeq == Init /\ [][NextBodySeq]_vars

\* ------------------------------------ requests without a valid identity
\* the identities that name no user: no usable token, and a token for a user
\* that does not exist
NoIdentity == {Anonymous, NumUsers + 1}

\* the requests a client can send under identity u
Requests(u) ==
  {NewReq(k, u, p) : k \in {"follow", "unfollow"},
                     p \in Canonical(AnyUserId)}
  \cup {NewPostReq(u, TRUE), NewProfileUpdate(u, NumUsers + 1, NoName)}
  \cup {NewReq(k, u, p) : k \in {"getPost", "deletePost", "likePost"},
                          p \in Known(posts, nextId.post)}
  \cup {NewPostUpdate(u, p, TRUE, [given |-> TRUE, value |-> FALSE]) :
          p \in Known(posts, nextId.post)}
  \cup {NewCommentReq(u, p, c) : p \in Known(posts, nextId.post),
                                 c \in Known(comments, 0)}
  \cup {NewPostCommentReq(u, p, NullParam) : p \in Known(posts, nextId.post)}
  \cup {NewPostCommentDelete(u, p, c) : p \in Known(posts, nextId.post),
                                        c \in Known(comments, nextId.comment)}
  \cup {NewReq(k, u, c) : k \in {"deleteComment", "likeComment"},
                          c \in Known(comments, nextId.comment)}
  \cup {NewCommentUpdate(u, c, TRUE, "edited") :
          c \in Known(comments, nextId.comment)}
  \cup {NewListReq("listPosts", u, NullParam, NoQuery, NoQuery, o) :
          o \in HandOuts(DOMAIN posts)}

Unidentified ==
  \E u \in NoIdentity :
    \E r \in Requests(u) :
       /\ \A p \in DOMAIN posts : posts[p].views < MaxViews
       /\ Serve(r)

NextAuthSeq ==
  \/ CreatePost({1}, BOOLEAN, MaxPosts)
  \/ CreateComment(Owners, {NullParam, toString(1)}, MaxOwned)
  \/ DeleteKnownComment
  \/ Unidentified

SpecAuthSeq == Init /\ [][NextAuthSeq]_vars

\* ================================================================== claims
Follows(A, B) == IncludesId(users[A].following, B)

\* C1: for distinct users A and B where A does not follow B, a successful
\* follow of B by A and then a successful unfollow (DELETE, or a second POST
\* that toggles) leaves every user's followers and following as they were
\* before the follow.
FollowRoundTrip ==
  \A A \in UserIds, B \in UserIds :
    (A # B /\ ~Follows(A, B)) =>
      \A p1 \in Params({B}), p2 \in Params({B}), k \in {"follow", "unfollow"} :
        \A f \in {Run(DB, NewReq("follow", A, p1))} :
          \A u \in {Run(f.db, NewReq(k, A, p2))} :
            (/\ f.r.message = "User followed successfully"
             /\ u.r.message = "User unfollowed successfully")
            => u.db.users = users

\* user 1 does not follow user 2 while user 2 follows user 1, and the follow
\* and the unfollow are both answered with success
FollowRoundTripWitness ==
  /\ ~Follows(1, 2) /\ Follows(2, 1)
  /\ LET f == Run(DB, NewReq("follow", 1, toString(2)))
         u == Run(f.db, NewReq("unfollow", 1, toString(2)))
     IN /\ f.r.message = "User followed successfully"
        /\ f.db.users # users
        /\ u.r.message = "User unfollowed successfully"

\* C2: whenever no follow or unfollow request is between its two updates,
\* B is in A.following exactly if A is in B.followers.
MirrorSets ==
  Quiescent =>
    \A A \in UserIds, B \in UserIds :
       IncludesId(users[A].following, B) <=> IncludesId(users[B].followers, A)

\* C3: no user is in their own followers or following list (a follow or
\* unfollow request whose target is the caller being answered 400).
NoSelfFollow ==
  \A U \in UserIds : /\ ~IncludesId(users[U].followers, U)
                     /\ ~IncludesId(users[U].following, U)

\* the number of occurrences of v in arr
Count(arr, v) == Cardinality({i \in 1..Len(arr) : arr[i] = v})

RepliesOf(coll, C) == {R \in DOMAIN coll : coll[R].parentComment = C}

\* C4: when its author deletes comment C through DELETE /comments/:commentId,
\* the request succeeds and afterwards C and every comment whose
\* parentComment is C are gone, C's id is not in the comments list of C's
\* post and, if C was a reply, not in the replies list of its parent.
DeleteCommentCascade ==
  \A C \in DOMAIN comments :
    \A p \in Params({C}) :
     \A res \in {Run(DB, NewReq("deleteComment", comments[C].author, p))} :
      LET c == comments[C]
          after == res.db
      IN /\ res.r.status = 200
         /\ ~Exists(after.comments, C)
         /\ \A R \in RepliesOf(comments, C) : ~Exists(after.comments, R)
         /\ RepliesOf(after.comments, C) = {}
         /\ Exists(after.posts, c.post) =>
              ~IncludesId(after.posts[c.post].comments, C)
         /\ (c.parentComment # 0 /\ Exists(after.comments, c.parentComment)) =>
              ~IncludesId(after.comments[c.parentComment].replies, C)

\* a reply C to an existing comment has a reply of its own, sits in its
\* post's comments list and in its parent's replies list, and is deleted
DeleteCommentCascadeWitness ==
  \E C \in DOMAIN comments :
     LET c == comments[C]
     IN /\ RepliesOf(comments, C) # {}
        /\ Exists(comments, c.parentComment)
        /\ IncludesId(comments[c.parentComment].replies, C)
        /\ Exists(posts, c.post)
        /\ IncludesId(posts[c.post].comments, C)
        /\ Run(DB, NewReq("deleteComment", c.author, toString(C))).r.status = 200

\* C5: when its author deletes post P, the request succeeds and afterwards
\* P is gone and no comment, top-level or reply, by any user, has P as its
\* post.
DeletePostCascade ==
  \A P \in DOMAIN posts :
    \A p \in Params({P}) :
     \A res \in {Run(DB, NewReq("deletePost", posts[P].author, p))} :
         /\ res.r.status = 200
         /\ ~Exists(res.db.posts, P)
         /\ \A c \in DOMAIN res.db.comments : res.db.comments[c].post # P

\* a post with a top-level comment and a reply, one of them written by
\* another user than the post's author, is deleted
DeletePostCascadeWitness ==
  \E P \in DOMAIN posts :
     /\ \E c \in DOMAIN comments, d \in DOMAIN comments :
          /\ comments[c].post = P /\ comments[c].parentComment = 0
          /\ comments[d].post = P /\ comments[d].parentComment = c
          /\ comments[d].author # posts[P].author
     /\ Run(DB, NewReq("deletePost", posts[P].author, toString(P))).r.status = 200

\* C6: the like request of a post or a comment toggles the caller's
\* membership in likes and answers liked accordingly; a second like request
\* by the same user gives likes its previous content; no other user's
\* membership and nothing else in the database changes.
LikeToggles(coll, kind) ==
  \A id \in DOMAIN DB[coll], U \in UserIds :
    \A p \in Params({id}) :
      \A once \in {Run(DB, NewReq(kind, U, p))} :
        \A twice \in {Run(once.db, NewReq(kind, U, p))} :
          LET before == DB[coll][id].likes
              likes1 == once.db[coll][id].likes
              likes2 == twice.db[coll][id].likes
          IN /\ once.r.status = 200 /\ twice.r.status = 200
             /\ once.r.liked = (Count(before, U) = 0)
             /\ Count(likes1, U) = (IF Count(before, U) = 0 THEN 1 ELSE 0)
             /\ twice.r.liked = ~once.r.liked
             /\ \A V \in UserIds :
                   /\ V # U => Count(likes1, V) = Count(before, V)
                   /\ Count(likes2, V) = Count(before, V)
             /\ once.db = [DB EXCEPT ![coll][id].likes = likes1]
             /\ twice.db = [DB EXCEPT ![coll][id].likes = likes2]

LikesDistinct ==
  /\ \A P \in DOMAIN posts, U \in UserIds : Count(posts[P].likes, U) <= 1
  /\ \A C \in DOMAIN comments, U \in UserIds : Count(comments[C].likes, U) <= 1

Fetched(P) == {s \in 1..NumSlots : /\ reqs[s].kind = "getPost"
                                   /\ reqs[s].pc = "done"
                                   /\ Cast(reqs[s].id) = P
                                   /\ reqs[s].status = 200}

NoViewLost ==
  Quiescent => \A P \in DOMAIN posts : posts[P].views = Cardinality(Fetched(P))

RECURSIVE Concat(_, _)
\* the results of the answers in slots 1..n, one after the other
Concat(rs, n) == IF n = 0 THEN <<>> ELSE Concat(rs, n - 1) \o rs[n].results

\* every page of the listing of slot 1 has been answered
Walked == /\ reqs[1].pc = "done"
          /\ reqs[1].pagination.pages <= NumSlots
          /\ \A s \in 1..reqs[1].pagination.pages : reqs[s].pc = "done"

\* C10: when pages 1..pages of a listing have been answered with no write in
\* between, every answer reports pages = ceil(total / limit) for the number
\* total of records matching the filter, and the results of the pages, one
\* after the other, hold each matching record exactly once.
PagesPartition ==
  Walked =>
    LET n == reqs[1].pagination.pages
        ids == Matching(DB, reqs[1])
        all == Concat(reqs, n)
    IN /\ \A s \in 1..n :
            /\ reqs[s].pagination.total = Cardinality(ids)
            /\ reqs[s].pagination.pages
                 = CeilDiv(Cardinality(ids), reqs[s].pagination.limit)
       /\ \A d \in ids : Count(all, d) = 1
       /\ Len(all) = Cardinality(ids)

\* what a request on a document with the given author must come to: 404 and
\* nothing changed when the document does not exist, 403 and nothing changed
\* for another user than the author, success for the author
OwnerGuard(res, exists, author, U) ==
  IF ~exists THEN res.r.status = 404 /\ res.db = DB
  ELSE IF author # U THEN res.r.status = 403 /\ res.db = DB
  ELSE res.r.status = 200

\* C11: an update or a deletion of a post or of a comment (with a body that
\* passes validation) by a user who is not the stored author is answered 403
\* and changes nothing in the database, one on a post or comment that does
\* not exist is answered 404 and changes nothing, and the author's own
\* request succeeds.
OwnerOnly ==
  \A U \in UserIds :
    /\ \A p \in Params(DOMAIN posts \cup {nextId.post}) :
         LET exists == Exists(posts, Cast(p))
             author == IF exists THEN posts[Cast(p)].author ELSE 0
         IN /\ \A b \in BodyBools :
                 \A res \in {Run(DB, NewPostUpdate(U, p, TRUE, b))} :
                    OwnerGuard(res, exists, author, U)
            /\ \A res \in {Run(DB, NewReq("deletePost", U, p))} :
                    OwnerGuard(res, exists, author, U)
    /\ \A p \in Params(DOMAIN comments \cup {nextId.comment}) :
         LET exists == Exists(comments, Cast(p))
             author == IF exists THEN comments[Cast(p)].author ELSE 0
         IN /\ \A c \in Contents :
                 \A res \in {Run(DB, NewCommentUpdate(U, p, TRUE, c))} :
                    OwnerGuard(res, exists, author, U)
            /\ \A res \in {Run(DB, NewReq("deleteComment", U, p))} :
                    OwnerGuard(res, exists, author, U)

\* user 2 asks to edit and to delete a comment of user 1 that has a reply,
\* and the post of user 1 that holds it; user 1's own edit changes the comment
OwnerOnlyWitness ==
  \E P \in DOMAIN posts, C \in DOMAIN comments :
     /\ posts[P].author = 1 /\ comments[C].author = 1
     /\ comments[C].post = P /\ comments[C].replies # <<>>
     /\ Run(DB, NewCommentUpdate(2, toString(C), TRUE, "edited")).r.status = 403
     /\ Run(DB, NewReq("deleteComment", 2, toString(C))).r.status = 403
     /\ Run(DB, NewPostUpdate(2, toString(P), TRUE, NoBool)).r.status = 403
     /\ Run(DB, NewReq("deletePost", 2, toString(P))).r.status = 403
     /\ comments[C].content = "first"
     /\ Run(DB, NewCommentUpdate(1, toString(C), TRUE, "edited"))
          .db.comments[C].content = "edited"

PostsAnswered == reqs[1].pc = "done" /\ reqs[1].kind \in PostLists

InResults(r, P) == \E i \in DOMAIN r.results : r.results[i] = P

\* no listing of posts returns a private post to anyone but its author
PrivateStaysPrivate ==
  PostsAnswered =>
    \A i \in DOMAIN reqs[1].results :
       LET post == posts[reqs[1].results[i]]
       IN post.isPublic \/ post.author = reqs[1].user

\* a user who lists their own posts is given all of them
OwnerSeesOwn ==
  (/\ PostsAnswered
   /\ reqs[1].kind = "listUserPosts"
   /\ reqs[1].type = ""
   /\ Cast(reqs[1].id) = reqs[1].user) =>
    \A P \in DOMAIN posts :
       posts[P].author = reqs[1].user => InResults(reqs[1], P)

\* C13: no listing of posts (list, explore, liked, a user's posts) returns a
\* post with isPublic = false to a caller who is not its author, whatever
\* the type and author filters, and an author who lists their own posts is
\* given their private posts too.
ListingsRespectVisibility == PrivateStaysPrivate /\ OwnerSeesOwn

\* C14: a follow or unfollow request that is rejected (answered with a
\* status of 400 or more) leaves the lists of all users unchanged; a target
\* that does not exist is answered 404; an unfollow of an existing user the
\* caller does not follow is answered 400.
RejectedFollowChangesNothing ==
  \A me \in UserIds, p \in Params(AnyUserId), k \in {"follow", "unfollow"} :
    \A res \in {Run(DB, NewReq(k, me, p))} :
      /\ res.r.status >= 400 => res.db = DB
      /\ ~Exists(users, Cast(p)) => res.r.status = 404
      /\ (k = "unfollow" /\ Exists(users, Cast(p)) /\ ~Follows(me, Cast(p)))
           => res.r.status = 400

\* user 1 follows user 2 and not user 3: unfollowing user 3 is answered 400,
\* following and unfollowing a user who does not exist 404
RejectedFollowWitness ==
  /\ Follows(1, 2) /\ ~Follows(1, 3)
  /\ Run(DB, NewReq("unfollow", 1, toString(3))).r.status = 400
  /\ Run(DB, NewReq("follow", 1, toString(NumUsers + 1))).r.status = 404
  /\ Run(DB, NewReq("unfollow", 1, toString(NumUsers + 1))).r.status = 404

\* another user than me holds the value in the field
HeldByOther(me, field, value) ==
  value # NoName /\ \E v \in UserIds \ {me} : users[v][field] = value

\* C15: no two users share a username or an e-mail address; a profile update
\* that asks for a username or an address another user holds is answered 400
\* and changes no user, and every other update succeeds and changes the
\* caller's record only.
ProfilesStayUnique ==
  /\ \A u \in UserIds, v \in UserIds :
        u # v => /\ users[u].username # users[v].username
                 /\ users[u].email # users[v].email
  /\ \A me \in UserIds, n \in Names \cup {NoName}, e \in Names \cup {NoName} :
       \A res \in {Run(DB, NewProfileUpdate(me, n, e))} :
          IF HeldByOther(me, "username", n) \/ HeldByOther(me, "email", e)
            THEN res.r.status = 400 /\ res.db = DB
            ELSE /\ res.r.status = 200
                 /\ \A v \in UserIds \ {me} : res.db.users[v] = users[v]
                 /\ n # NoName => res.db.users[me].username = n
                 /\ e # NoName => res.db.users[me].email = e

\* user 1 has changed both username and address; asking for user 2's
\* username, or for a free username with user 2's address, is answered 400,
\* and asking for the free ones succeeds
ProfilesStayUniqueWitness ==
  /\ users[1].username # 1 /\ users[1].email # 1
  /\ Run(DB, NewProfileUpdate(1, users[2].username, NoName)).r.status = 400
  /\ \E n \in Names, e \in Names :
        /\ ~HeldByOther(1, "username", n) /\ n # users[1].username
        /\ ~HeldByOther(1, "email", e) /\ e # users[1].email
        /\ Run(DB, NewProfileUpdate(1, n, users[2].email)).r.status = 400
        /\ Run(DB, NewProfileUpdate(1, n, e)).db.users[1].username = n

\* C16: with no comment request part-way through its steps, every comment
\* with a parent has an existing parent whose replies list holds it, and
\* every entry of a replies list is an existing comment with that parent.
RepliesMirror ==
  Quiescent =>
    /\ \A R \in DOMAIN comments :
          comments[R].parentComment # 0 =>
            /\ Exists(comments, comments[R].parentComment)
            /\ IncludesId(comments[comments[R].parentComment].replies, R)
    /\ \A C \in DOMAIN comments :
          \A i \in DOMAIN comments[C].replies :
             /\ Exists(comments, comments[C].replies[i])
             /\ comments[comments[C].replies[i]].parentComment = C

\* C17: the parent of every reply is a top-level comment.
OneLevelReplies ==
  \A R \in DOMAIN comments :
     (comments[R].parentComment # 0
        /\ Exists(comments, comments[R].parentComment))
       => comments[comments[R].parentComment].parentComment = 0

\* C18: creating a comment, at POST /comments or under the post, on a post
\* that does not exist or as a reply to a comment that does not exist is
\* answered 404 and changes nothing in the database; a successful creation
\* adds one comment with the caller as author, appends its id to the comments
\* list of the post (and to the replies list of the parent) and changes
\* nothing else.
CreateCommentChecked ==
  \A U \in UserIds, k \in {"createComment", "createPostComment"},
     p \in Params(DOMAIN posts \cup {nextId.post}),
     c \in {NullParam} \cup Params(DOMAIN comments \cup {nextId.comment}) :
    \A res \in {Run(DB, [NewCommentReq(U, p, c) EXCEPT !.kind = k])} :
      LET id == nextId.comment
          P == Cast(p)
          C == Cast(c)
      IN IF ~Exists(posts, P) \/ (c # NullParam /\ ~Exists(comments, C))
           THEN res.r.status = 404 /\ res.db = DB
           ELSE /\ res.r.status = 201
                /\ DOMAIN res.db.comments = DOMAIN comments \cup {id}
                /\ id \notin DOMAIN comments
                /\ res.db.comments[id].author = U
                /\ res.db.comments[id].post = P
                /\ res.db.comments[id].parentComment = C
                /\ res.db.posts =
                     [posts EXCEPT ![P].comments = Append(@, id)]
                /\ \A d \in DOMAIN comments :
                     res.db.comments[d] =
                       IF c # NullParam /\ d = C
                         THEN [comments[d] EXCEPT !.replies = Append(@, id)]
                         ELSE comments[d]
                /\ res.db.users = users

\* two posts, the first with a comment: user 2 is answered 404 for a comment
\* on a post that does not exist and for a reply to a comment that does not
\* exist, and 201 for a reply under the second post
CreateCommentCheckedWitness ==
  /\ DOMAIN posts = {1, 2}
  /\ \E C \in DOMAIN comments :
        /\ comments[C].post = 1
        /\ Run(DB, NewCommentReq(2, toString(nextId.post), NullParam))
             .r.status = 404
        /\ Run(DB, NewPostCommentReq(2, toString(2), toString(nextId.comment)))
             .r.status = 404
        /\ Run(DB, NewPostCommentReq(2, toString(2), toString(C)))
             .r.status = 201

\* the persisted state and the response of two handler runs agree
SameOutcome(a, b) ==
  /\ a.db = b.db
  /\ a.r.status = b.r.status
  /\ a.r.message = b.r.message
  /\ a.r.results = b.r.results
  /\ a.r.pagination = b.r.pagination

\* C19: for every existing post id in the path and every comment id, also
\* one of a comment of another post, creating, listing and deleting a
\* comment under the post has the same effect on the database and gives the
\* same response as the request of the comments resource.
NestedMirrorsDedicated ==
  \A U \in UserIds, p \in Params(DOMAIN posts),
     c \in Params(DOMAIN comments \cup {nextId.comment}) :
    /\ SameOutcome(Run(DB, NewPostCommentDelete(U, p, c)),
                   Run(DB, NewReq("deleteComment", U, c)))
    /\ \A parent \in {NullParam, c} :
          SameOutcome(Run(DB, NewPostCommentReq(U, p, parent)),
                      Run(DB, NewCommentReq(U, p, parent)))
    /\ \A limit \in {NoQuery, QueryInt(1)} :
          LET o == AnyHandOut(DOMAIN comments)
          IN SameOutcome(
               Run(DB, NewListReq("listPostComments", U, p, NoQuery, limit, o)),
               Run(DB, NewListReq("listComments", U, p, NoQuery, limit, o)))

\* the request was answered with the generic server error
Failed(res) == res.r.status = 500 /\ res.r.message = "Server error"

\* the list without the entries equal to x
Without(arr, x) == SelectSeq(arr, LAMBDA e : e # x)

\* the request r, whose database call at step `at` throws, is answered 500
\* 'Server error' and leaves the database as expected
FailsLeaving(r, at, expected) ==
  \A res \in {Run(DB, Failing(r, at))} : Failed(res) /\ res.db = expected

\* a follow or unfollow that would succeed: a failure of the first update
\* leaves the lists as they were, a failure of the second leaves the first
FollowFailure ==
  \A me \in UserIds, p \in Params(UserIds), k \in {"follow", "unfollow"} :
    \A ok \in {Run(DB, NewReq(k, me, p))} :
      LET r == NewReq(k, me, p)
          t == Cast(p)
      IN /\ ok.r.message = "User followed successfully" =>
              /\ FailsLeaving(r, "pushFollowing", DB)
              /\ FailsLeaving(r, "pushFollowers",
                   [DB EXCEPT !.users[me].following = Append(@, t)])
         /\ ok.r.message = "User unfollowed successfully" =>
              /\ FailsLeaving(r, "pullFollowing", DB)
              /\ FailsLeaving(r, "pullFollowers",
                   [DB EXCEPT !.users[me].following = Without(@, t)])

\* a comment creation that would succeed: once the comment is saved it
\* stays, whichever of the two list updates fails
CreateCommentFailure ==
  \A U \in UserIds, p \in Canonical(DOMAIN posts),
     c \in {NullParam} \cup Canonical(DOMAIN comments) :
    \A ok \in {Run(DB, NewCommentReq(U, p, c))} :
      LET r == NewCommentReq(U, p, c)
          id == nextId.comment
          saved == [DB EXCEPT !.comments = [d \in DOMAIN comments \cup {id} |->
                                              IF d = id THEN ok.db.comments[id]
                                              ELSE comments[d]],
                              !.nextId.comment = id + 1]
          listed == IF c = NullParam THEN saved
                    ELSE [saved EXCEPT !.comments[Cast(c)].replies =
                                          Append(@, id)]
      IN /\ ok.r.status = 201 /\ ok.db.comments[id].author = U
         /\ FailsLeaving(r, "save", DB)
         /\ c # NullParam => FailsLeaving(r, "pushReply", saved)
         /\ FailsLeaving(r, "pushComment", listed)

\* a comment deletion by the author: each failing step leaves the effects of
\* the steps before it
DeleteCommentFailure ==
  \A C \in DOMAIN comments :
    LET r == NewReq("deleteComment", comments[C].author, toString(C))
        post == comments[C].post
        parent == comments[C].parentComment
        d1 == IF Exists(posts, post)
                THEN [DB EXCEPT !.posts[post].comments = Without(@, C)]
                ELSE DB
        d2 == IF parent # 0 /\ Exists(comments, parent)
                THEN [d1 EXCEPT !.comments[parent].replies = Without(@, C)]
                ELSE d1
        d3 == [d2 EXCEPT !.comments =
                 [x \in {y \in DOMAIN @ : @[y].parentComment # C} |-> @[x]]]
    IN /\ FailsLeaving(r, "pullComment", DB)
       /\ parent # 0 => FailsLeaving(r, "pullReply", d1)
       /\ FailsLeaving(r, "deleteReplies", d2)
       /\ FailsLeaving(r, "deleteComment", d3)

\* a post deletion by the author: when the deletion of the post fails its
\* comments are gone all the same
DeletePostFailure ==
  \A P \in DOMAIN posts :
    LET r == NewReq("deletePost", posts[P].author, toString(P))
    IN /\ FailsLeaving(r, "deleteComments", DB)
       /\ FailsLeaving(r, "deletePost",
            [DB EXCEPT !.comments =
               [x \in {y \in DOMAIN @ : @[y].post # P} |-> @[x]]])

\* C20: when a database call of a multi-step mutation throws (the second
\* update of a follow or unfollow, a list update after a comment is saved,
\* a step of a comment deletion, the post deletion after its comments were
\* deleted), the request is answered 500 'Server error', no later step runs
\* and the effects of the earlier steps stay.
FailureLeavesPartial ==
  /\ FollowFailure
  /\ CreateCommentFailure
  /\ DeleteCommentFailure
  /\ DeletePostFailure

\* user 1 is in no followers list although following user 2 (a follow whose
\* second update failed), and the deletion of a comment with a reply fails at
\* its last step with the reply already deleted
FailureLeavesPartialWitness ==
  /\ Follows(1, 2) /\ ~IncludesId(users[2].followers, 1)
  /\ \E C \in DOMAIN comments :
        /\ RepliesOf(comments, C) # {}
        /\ \A res \in {Run(DB, Failing(NewReq("deleteComment",
                                               comments[C].author,
                                               toString(C)),
                                        "deleteComment"))} :
              /\ Failed(res)
              /\ Exists(res.db.comments, C)
              /\ RepliesOf(res.db.comments, C) = {}

\* every stored post has a category of the schema's enumeration
StoredCategoriesInSchema ==
  \A P \in DOMAIN posts : posts[P].category \in SchemaCategories

\* a create request that passes the validators of the route stores the post
\* and is answered 201
ValidCreateIsStored ==
  \A U \in UserIds, t \in PostTypes, c \in CreateCategories, b \in BOOLEAN :
    \A res \in {Run(DB, NewCategorisedPost(U, t, c, b))} :
       /\ res.r.status = 201
       /\ Exists(res.db.posts, nextId.post)
       /\ res.db.posts[nextId.post].category = c

\* C21: every category the create validation accepts is accepted by the
\* update validation and by the schema's enumeration, so a create request
\* with a valid body stores the post and is answered 201, never 500, and
\* every stored post has a category of the schema's enumeration.
CategoriesAgree ==
  /\ CreateCategories \subseteq UpdateCategories
  /\ CreateCategories \subseteq SchemaCategories
  /\ ValidCreateIsStored
  /\ StoredCategoriesInSchema

\* slot 1 holds the answer to a listing
ListAnswered == reqs[1].pc = "done"

\* parseInt gives no number other than 0 for the parameter
Defaulted(q) == ~q.given \/ ~q.numeric \/ q.n = 0

\* an absent, non-numeric or 0 parameter stands for page 1 and limit 10 (20
\* on explore)
QueryDefaults ==
  ListAnswered =>
    /\ Defaulted(reqs[1].page) => reqs[1].local.page = 1
    /\ Defaulted(reqs[1].limit) =>
         reqs[1].local.limit = IF reqs[1].kind = "explore" THEN 20 ELSE 10

\* the page and limit reported are those used for the skip and for the size
\* of the result
ReportedAreUsed ==
  (ListAnswered /\ reqs[1].status = 200) =>
    LET r == reqs[1]
        total == Cardinality(Matching(DB, r))
        rest == IF total > r.local.skip THEN total - r.local.skip ELSE 0
    IN /\ r.local.skip = (r.local.page - 1) * r.local.limit
       /\ r.local.limit > 0 =>
            Len(r.results) = IF rest < r.local.limit THEN rest
                             ELSE r.local.limit
       /\ r.kind # "explore" => /\ r.pagination.page = r.local.page
                                /\ r.pagination.limit = r.local.limit

\* nothing reported or used is negative
NothingNegative ==
  ListAnswered =>
    /\ reqs[1].pagination.page >= 0
    /\ reqs[1].pagination.limit >= 0
    /\ reqs[1].pagination.pages >= 0
    /\ reqs[1].local.skip >= 0

\* C22: an absent, non-numeric or 0 page or limit stands for page 1 and
\* limit 10 (20 on explore); the reported page and limit are the values used
\* for skip = (page - 1) * limit and for the size of the result; and for
\* every integer value of the parameters, negative ones too, the reported
\* page, limit and pages and the skip are never negative.
PaginationSane == QueryDefaults /\ ReportedAreUsed /\ NothingNegative

\* C23: the followers list and the following list of every user hold each
\* user at most once, also when the same caller's follow requests for one
\* target run concurrently, each reading the following list before it pushes.
FollowListsDistinct ==
  \A U \in UserIds, V \in UserIds :
     /\ Count(users[U].followers, V) <= 1
     /\ Count(users[U].following, V) <= 1

\* postSchema.virtual('commentCount')
commentCount(post) == Len(post.comments)

\* C24: after any sequence of comment creations (top-level and replies) and
\* comment deletions through either delete route, every id in a post's
\* comments list is the id of an existing comment of that post, every
\* existing comment's id is in the comments list of its post, and
\* commentCount is the number of existing comments of the post.
PostCommentsIntegrity ==
  /\ \A P \in DOMAIN posts :
        /\ \A i \in DOMAIN posts[P].comments :
              /\ Exists(comments, posts[P].comments[i])
              /\ comments[posts[P].comments[i]].post = P
        /\ commentCount(posts[P])
             = Cardinality({C \in DOMAIN comments : comments[C].post = P})
  /\ \A C \in DOMAIN comments :
        /\ Exists(posts, comments[C].post)
        /\ IncludesId(posts[comments[C].post].comments, C)

\* C25: when a comment creation on post P runs concurrently with the
\* deletion of P, then once both requests have completed no comment is left
\* whose post is the deleted P.
NoOrphanComments ==
  Quiescent => \A C \in DOMAIN comments : Exists(posts, comments[C].post)

\* C26: every reply belongs to the post of its parent: an existing comment
\* R with parentComment P has R.post = P.post, whatever post id and parent
\* comment id the create requests carried.
ReplyInParentsPost ==
  \A R \in DOMAIN comments :
     (comments[R].parentComment # 0
        /\ Exists(comments, comments[R].parentComment))
       => comments[R].post = comments[comments[R].parentComment].post

\* C27: a post with isPublic = false is not disclosed to, or changed by,
\* anyone but its author through the single-post operations: a fetch by
\* another user or without identity does not return it and leaves its views,
\* and another user can neither like it nor comment on it.
PrivatePostSealed ==
  \A P \in DOMAIN posts :
    ~posts[P].isPublic =>
      \A U \in (UserIds \cup {Anonymous}) \ {posts[P].author} :
        /\ \A res \in {Run(DB, NewReq("getPost", U, toString(P)))} :
              res.r.status # 200 /\ res.db = DB
        /\ \A res \in {Run(DB, NewReq("likePost", U, toString(P)))} :
              res.r.status # 200 /\ res.db = DB
        /\ \A res \in {Run(DB, NewPostCommentReq(U, toString(P), NullParam))} :
              res.r.status # 201 /\ res.db = DB

\* every request the client has sent has been answered and the answer handled
ClientSettled ==
  \A s \in 1..NumSlots :
     reqs[s].pc = "idle" \/ (reqs[s].pc = "done" /\ reqs[s].seen)

\* C28: for a logged-in user and a post card of the home feed, once the feed
\* has loaded and after every like click whose request has completed, the
\* card's isLiked says whether the user is in the post's likes list on the
\* server and its likeCount is the length of that list, whether or not the
\* user liked the post before, and also when a second click is made before
\* the first request has completed.
CardFollowsServer ==
  (card.loaded /\ ClientSettled) =>
    /\ card.isLiked = IncludesId(posts[card.post].likes, Viewer)
    /\ card.likeCount = Len(posts[card.post].likes)

\* the ids of the followers the page shows
ShownFollowers == [i \in DOMAIN profile.followers |-> profile.followers[i].id]

\* C29: on the user profile page, once the profile has loaded and after
\* every follow click whose request has completed, the page's following
\* flag says whether the logged-in user is in the followers list of the
\* viewed user on the server, and the followers the page shows are the
\* server's, whether or not the user followed before.
ProfileFollowsServer ==
  profile.loaded =>
    /\ profile.following
         = IncludesId(users[profile.viewed].followers, Viewer)
    /\ ShownFollowers = users[profile.viewed].followers

\* the post as an update with the body leaves it when it succeeds
Updated(post, body) ==
  [post EXCEPT
     !.category = IF body.category # "" THEN body.category ELSE @,
     !.isPublic = IF body.setPublic.given THEN body.setPublic.value ELSE @]

\* the requests other than updates that act on post P
ActingOn(U, P) ==
  {NewReq("likePost", U, toString(P)), NewReq("getPost", U, toString(P)),
   NewCommentReq(U, toString(P), NullParam),
   NewPostCommentReq(U, toString(P), NullParam)}

====
